---- MODULE Spec2Model ----
(***************************************************************************)
(* Model of the cell grid of the raycasting sandbox (src/cells.py):        *)
(* CellMap.set_cell_type, clear, link_sides and unlink_sides acting on a   *)
(* columns x rows array of cells whose type_ is False (Empty), a Wall, a   *)
(* Mirror or a Portal with one optional link per side; the direction       *)
(* algebra of src/directions.py; CellMap.portal_transform with the         *)
(* geometry helpers it rests on; and the map editor of src/main.py         *)
(* (Sandbox.handle_event, handle_mouse and update_cell).                   *)
(***************************************************************************)
EXTENDS Integers, Sequences, FiniteSets, TLC

VARIABLES cells, prev, last, steps, args, result, sandbox

vars == <<cells, prev, last, steps, args, result, sandbox>>

(* ---- bounds ---------------------------------------------------------- *)
\* width of the modelled map in cells (CellMap.columns); the map is one
\* row high
Columns == 2
\* number of grid operations in one behaviour
MaxSteps == 3
\* rotate is called with times in -MaxTimes..MaxTimes
MaxTimes == 4
\* side of one cell in pixels (CellMap.square_size); positions are whole
\* pixels, so a fractional position is a number of pixels over SquareSize
SquareSize == 4
\* number of edits made to the ray's cell before the ray is teleported
MaxEdits == 1
\* number of editor actions (clicks that reach update_cell, and clears) in
\* one behaviour
MaxClicks == 4

(* ---- directions (src/directions.py) ---------------------------------- *)
NONE == 0
UP == 1
RIGHT == 2
DOWN == 4
LEFT == 8

Sides == {UP, RIGHT, DOWN, LEFT}

\* the sides the calls name in their arguments; a portal has a link slot for
\* each of the four sides
InputSides == {UP, RIGHT}

\* ALL = UP | DOWN | LEFT | RIGHT
ALL == UP + DOWN + LEFT + RIGHT

\* the values of the Flag: every union of the four directions
Directions == NONE..ALL

\* self & Direction.X is truthy
HasFlag(v, d) == (v \div d) % 2 = 1

\* a | b
FlagOr(a, b) ==
    LET bit(d) == IF HasFlag(a, d) \/ HasFlag(b, d) THEN d ELSE 0
    IN  bit(UP) + bit(RIGHT) + bit(DOWN) + bit(LEFT)

\* Direction.components: the simple directions of a value, in the order
\* UP, DOWN, LEFT, RIGHT
components(v) == SelectSeq(<<UP, DOWN, LEFT, RIGHT>>, LAMBDA d : HasFlag(v, d))

\* int(math.log2(value)) for value in {1, 2, 4, 8}
log2(v) == CHOOSE i \in 0..3 : 2 ^ i = v

\* a call that returns v, and a call that raises
Returns(v) == [err |-> "", val |-> v]

Raises(e) == [err |-> e, val |-> 0]

\* variant: the ccw flag is ignored
rotate_simple_cw(v, times, ccw) ==
    IF v \notin {1, 2, 4, 8}
    THEN Raises("AssertionError")
    ELSE Returns(2 ^ ((log2(v) + times) % 4))

\* Direction.rotate for a value with at most one component
rotate_simple(v, times, ccw) ==
    IF v \notin {1, 2, 4, 8}
    THEN Raises("AssertionError")
    ELSE LET delta == IF ccw THEN -times ELSE times
         IN  Returns(2 ^ ((log2(v) + delta) % 4))

\* reduce(lambda a, b: a | b, values)
RECURSIVE reduce_or(_)
reduce_or(values) ==
    IF Len(values) = 1
    THEN values[1]
    ELSE FlagOr(reduce_or(SubSeq(values, 1, Len(values) - 1)), values[Len(values)])

\* Direction.rotate
rotate(v, times, ccw) ==
    IF Len(components(v)) > 1
    THEN Returns(reduce_or([i \in 1..Len(components(v)) |->
                               rotate_simple(components(v)[i], times, ccw).val]))
    ELSE rotate_simple(v, times, ccw)

\* variant: the operands are subtracted the other way round
difference_swapped(self, other) ==
    IF Len(components(self)) > 1
    THEN Raises("RuntimeError")
    ELSE IF ~(self \in {1, 2, 4, 8} /\ other \in {1, 2, 4, 8})
         THEN Raises("AssertionError")
         ELSE Returns((log2(other) - log2(self)) % 4)

\* variant: the distance between the two positions, whatever the sense
difference_abs(self, other) ==
    IF Len(components(self)) > 1
    THEN Raises("RuntimeError")
    ELSE IF ~(self \in {1, 2, 4, 8} /\ other \in {1, 2, 4, 8})
         THEN Raises("AssertionError")
         ELSE Returns(IF log2(self) >= log2(other)
                      THEN log2(self) - log2(other)
                      ELSE log2(other) - log2(self))

\* variant: only self is checked; a compound other counts as its highest
\* component
difference_self_only(self, other) ==
    IF Len(components(self)) > 1
    THEN Raises("RuntimeError")
    ELSE IF self \notin {1, 2, 4, 8} \/ other = NONE
         THEN Raises("AssertionError")
         ELSE Returns((log2(self)
                       - (CHOOSE i \in 0..3 : 2 ^ i <= other /\ other < 2 ^ (i + 1)))
                      % 4)

\* Direction.difference
difference(self, other) ==
    IF Len(components(self)) > 1
    THEN Raises("RuntimeError")
    ELSE IF ~(self \in {1, 2, 4, 8} /\ other \in {1, 2, 4, 8})
         THEN Raises("AssertionError")
         ELSE Returns((log2(self) - log2(other)) % 4)

(* ---- cell contents --------------------------------------------------- *)
\* a link that is None
None == <<>>

Locations == {<<x, 0>> : x \in 0..(Columns - 1)}

\* Portal(): a fresh portal, no side linked
NoLinks == [d \in Sides |-> None]

Portal(links) == [kind |-> "Portal", links |-> links]

\* Cell(): type_ = False
Empty == [kind |-> "Empty", links |-> NoLinks]

Wall == [kind |-> "Wall", links |-> NoLinks]

Mirror == [kind |-> "Mirror", links |-> NoLinks]

NonPortalTypes == {Empty, Wall, Mirror}

\* isinstance(type_, Portal)
IsPortal(t) == t.kind = "Portal"

\* all(link is None for link in type_.links.values())
AllNone(links) == \A d \in Sides : links[d] = None

\* cell.type_ if isinstance(cell.type_, Portal) else Portal()
AsPortal(t) == IF IsPortal(t) THEN t ELSE Portal(NoLinks)

\* variant: the portal is kept even when its last link is gone
Normalized_keep(links) == Portal(links)

\* the tail of unlink_sides: a portal left without links becomes False
Normalized(links) == IF AllNone(links) THEN Empty ELSE Portal(links)

\* variant: between two cells only the first side is cleared
unlink_sides_oneside(c, l1, s1, l2, s2) ==
    IF l1 = l2
    THEN IF ~IsPortal(c[l1])
         THEN c
         ELSE [c EXCEPT ![l1] =
                  Normalized([c[l1].links EXCEPT ![s1] = None, ![s2] = None])]
    ELSE IF ~(IsPortal(c[l1]) /\ IsPortal(c[l2]))
         THEN c
         ELSE [c EXCEPT
                  ![l1] = Normalized([c[l1].links EXCEPT ![s1] = None])]

\* variant: one portal among the two cells is enough to go on
unlink_sides_anyportal(c, l1, s1, l2, s2) ==
    IF l1 = l2
    THEN IF ~IsPortal(c[l1])
         THEN c
         ELSE [c EXCEPT ![l1] =
                  Normalized([c[l1].links EXCEPT ![s1] = None, ![s2] = None])]
    ELSE IF ~(IsPortal(c[l1]) \/ IsPortal(c[l2]))
         THEN c
         ELSE [c EXCEPT
                  ![l1] = Normalized([c[l1].links EXCEPT ![s1] = None]),
                  ![l2] = Normalized([c[l2].links EXCEPT ![s2] = None])]

(* ---- CellMap.unlink_sides -------------------------------------------- *)
unlink_sides(c, l1, s1, l2, s2) ==
    IF l1 = l2
    THEN IF ~IsPortal(c[l1])
         THEN c
         ELSE [c EXCEPT ![l1] =
                  Normalized([c[l1].links EXCEPT ![s1] = None, ![s2] = None])]
    ELSE IF ~(IsPortal(c[l1]) /\ IsPortal(c[l2]))
         THEN c
         ELSE [c EXCEPT
                  ![l1] = Normalized([c[l1].links EXCEPT ![s1] = None]),
                  ![l2] = Normalized([c[l2].links EXCEPT ![s2] = None])]

(* ---- CellMap.set_cell_type ------------------------------------------- *)
\* one pass of the loop body for side d.  The loop walks the links of the
\* portal object the cell held on entry; once unlink_sides has replaced that
\* object by False every one of its links is None.
unlink_step(c, loc, d) ==
    LET linked == IF IsPortal(c[loc]) THEN c[loc].links[d] ELSE None
    IN  IF linked = None
        THEN c
        ELSE unlink_sides(c, loc, d, linked[1], linked[2])

\* the loop over links.items(); the order of the sides in the dict is set by
\* the Portal class, so every order is considered
RECURSIVE cascade(_, _, _)
cascade(c, loc, remaining) ==
    IF remaining = {}
    THEN {c}
    ELSE UNION {cascade(unlink_step(c, loc, d), loc, remaining \ {d})
                : d \in remaining}

\* the grids set_cell_type(x, y, new_type) can leave
set_cell_type(c, loc, new) ==
    IF ~IsPortal(new) /\ IsPortal(c[loc])
    THEN {[g EXCEPT ![loc] = new] : g \in cascade(c, loc, Sides)}
    ELSE {[c EXCEPT ![loc] = new]}

(* ---- CellMap.clear --------------------------------------------------- *)
\* for column in range(columns): for row in range(rows)
CellOrder == [i \in 1..Columns |-> <<i - 1, 0>>]

RECURSIVE clear_from(_, _)
clear_from(gs, i) ==
    IF i > Columns
    THEN gs
    ELSE clear_from(UNION {set_cell_type(g, CellOrder[i], Empty) : g \in gs}, i + 1)

\* variant: the loop starts at the second cell
clear_skip(c) == clear_from({c}, 2)

clear(c) == clear_from({c}, 1)

\* variant: between two cells the second cell gets no link back
link_sides_oneway(c, l1, s1, l2, s2) ==
    IF l1 = l2
    THEN [c EXCEPT ![l1] =
             Portal([AsPortal(c[l1]).links EXCEPT ![s1] = <<l1, s2>>,
                                                  ![s2] = <<l1, s1>>])]
    ELSE [c EXCEPT
             ![l1] = Portal([AsPortal(c[l1]).links EXCEPT ![s1] = <<l2, s2>>]),
             ![l2] = Portal(AsPortal(c[l2]).links)]

\* variant: both cells always get a fresh Portal()
link_sides_fresh(c, l1, s1, l2, s2) ==
    IF l1 = l2
    THEN [c EXCEPT ![l1] =
             Portal([NoLinks EXCEPT ![s1] = <<l1, s2>>, ![s2] = <<l1, s1>>])]
    ELSE [c EXCEPT
             ![l1] = Portal([NoLinks EXCEPT ![s1] = <<l2, s2>>]),
             ![l2] = Portal([NoLinks EXCEPT ![s2] = <<l1, s1>>])]

\* variant: a side that is already linked is unlinked from its partner first
link_sides_cascade(c, l1, s1, l2, s2) ==
    LET old == c[l1].links[s1]
        c0 == IF old = None THEN c ELSE unlink_sides(c, l1, s1, old[1], old[2])
    IN  IF l1 = l2
        THEN [c0 EXCEPT ![l1] =
                 Portal([AsPortal(c0[l1]).links EXCEPT ![s1] = <<l1, s2>>,
                                                       ![s2] = <<l1, s1>>])]
        ELSE [c0 EXCEPT
                 ![l1] = Portal([AsPortal(c0[l1]).links EXCEPT ![s1] = <<l2, s2>>]),
                 ![l2] = Portal([AsPortal(c0[l2]).links EXCEPT ![s2] = <<l1, s1>>])]

(* ---- CellMap.link_sides ---------------------------------------------- *)
\* new_type is a Portal, so the set_cell_type calls at the end store it
\* without any unlinking
link_sides(c, l1, s1, l2, s2) ==
    IF l1 = l2
    THEN [c EXCEPT ![l1] =
             Portal([AsPortal(c[l1]).links EXCEPT ![s1] = <<l1, s2>>,
                                                  ![s2] = <<l1, s1>>])]
    ELSE [c EXCEPT
             ![l1] = Portal([AsPortal(c[l1]).links EXCEPT ![s1] = <<l2, s2>>]),
             ![l2] = Portal([AsPortal(c[l2]).links EXCEPT ![s2] = <<l1, s1>>])]

(* ---- geometry helpers ------------------------------------------------ *)
\* variant: the quotient is rounded toward zero
split_position_trunc(position, square_size) ==
    LET quotient(v) == IF v >= 0 THEN v \div square_size
                       ELSE -((-v) \div square_size)
    IN  <<<<quotient(position[1]), quotient(position[2])>>,
          <<position[1] - quotient(position[1]) * square_size,
            position[2] - quotient(position[2]) * square_size>>>>

\* split_position: divmod of each axis by square_size; the second component
\* is the remainder, standing for remainder / square_size
split_position(position, square_size) ==
    <<<<position[1] \div square_size, position[2] \div square_size>>,
      <<position[1] % square_size, position[2] % square_size>>>>

\* 1 - v for a fractional coordinate v of a cell
OneMinus(v) == SquareSize - v

\* variant: the last of the smallest values wins
get_closest_side_last(position) ==
    LET values == <<<<position[2], UP>>, <<OneMinus(position[2]), DOWN>>,
                    <<position[1], LEFT>>, <<OneMinus(position[1]), RIGHT>>>>
        first == CHOOSE i \in 1..4 :
                    /\ \A j \in 1..4 : values[i][1] <= values[j][1]
                    /\ \A j \in (i + 1)..4 : values[j][1] > values[i][1]
    IN  values[first][2]

\* get_closest_side: min() returns the first of the smallest values
get_closest_side(position) ==
    LET values == <<<<position[2], UP>>, <<OneMinus(position[2]), DOWN>>,
                    <<position[1], LEFT>>, <<OneMinus(position[1]), RIGHT>>>>
        first == CHOOSE i \in 1..4 :
                    /\ \A j \in 1..4 : values[i][1] <= values[j][1]
                    /\ \A j \in 1..(i - 1) : values[j][1] > values[i][1]
    IN  values[first][2]

\* Vector2(1, 0).angle_to(direction) % 360.  The callers compare the angle
\* with 90, 180 and 270 only, so an angle strictly inside a quadrant is
\* given as the middle of the quadrant.
angle(direction) ==
    LET dx == direction[1]
        dy == direction[2]
    IN  CASE dy = 0 /\ dx > 0 -> 0
          [] dy > 0 /\ dx > 0 -> 45
          [] dy > 0 /\ dx = 0 -> 90
          [] dy > 0 /\ dx < 0 -> 135
          [] dy = 0 /\ dx < 0 -> 180
          [] dy < 0 /\ dx < 0 -> 225
          [] dy < 0 /\ dx = 0 -> 270
          [] dy < 0 /\ dx > 0 -> 315

\* variant: the boundary angles 180 and 90 fall on the other side of the
\* first comparisons
get_enter_side_open(position, direction) ==
    LET from_position == get_closest_side(position)
        a == angle(direction)
    IN  CASE from_position = UP ->
                IF a < 180 THEN from_position
                ELSE IF 180 < a /\ a <= 270 THEN RIGHT ELSE LEFT
          [] from_position = RIGHT ->
                IF 90 < a /\ a <= 270 THEN from_position
                ELSE IF a < 90 THEN UP ELSE DOWN
          [] from_position = DOWN ->
                IF a >= 180 THEN from_position
                ELSE IF 90 <= a /\ a < 180 THEN RIGHT ELSE LEFT
          [] from_position = LEFT ->
                IF a <= 90 \/ a >= 270 THEN from_position
                ELSE IF 90 < a /\ a <= 180 THEN UP ELSE DOWN
          [] OTHER -> NONE

\* variant: the closest side is returned whatever the direction
get_enter_side_closest(position, direction) ==
    get_closest_side(position)

\* get_enter_side; a from_position that is no single side falls through the
\* match to Direction.NONE
get_enter_side(position, direction) ==
    LET from_position == get_closest_side(position)
        a == angle(direction)
    IN  CASE from_position = UP ->
                IF a <= 180 THEN from_position
                ELSE IF 180 < a /\ a <= 270 THEN RIGHT ELSE LEFT
          [] from_position = RIGHT ->
                IF 90 <= a /\ a <= 270 THEN from_position
                ELSE IF a < 90 THEN UP ELSE DOWN
          [] from_position = DOWN ->
                IF a >= 180 THEN from_position
                ELSE IF 90 <= a /\ a < 180 THEN RIGHT ELSE LEFT
          [] from_position = LEFT ->
                IF a <= 90 \/ a >= 270 THEN from_position
                ELSE IF 90 < a /\ a <= 180 THEN UP ELSE DOWN
          [] OTHER -> NONE

(* ---- CellMap.portal_transform ---------------------------------------- *)
\* direction.rotate_ip(90 * quarters): a quarter turn takes (x, y) to (-y, x)
RECURSIVE rotate_ip(_, _)
rotate_ip(direction, quarters) ==
    IF quarters = 0
    THEN direction
    ELSE rotate_ip(<<-direction[2], direction[1]>>, quarters - 1)

\* the outcome of a portal_transform call
Teleported(location, direction) ==
    [err |-> "", location |-> location, direction |-> direction]

TeleportFails(e) == [err |-> e, location |-> <<0, 0>>, direction |-> <<0, 0>>]

\* variant: the fractional position is not mirrored across the entry axis
transform_from_unmirrored(c, location, direction, enter_side) ==
    LET cell == split_position(location, SquareSize)[1]
        cell_pos == split_position(location, SquareSize)[2]
        start_cell == c[cell]
    IN  IF ~IsPortal(start_cell)
        THEN TeleportFails("AssertionError")
        ELSE IF start_cell.links[enter_side] = None
        THEN Teleported(location, direction)
        ELSE LET other_location == start_cell.links[enter_side][1]
                 other_side == start_cell.links[enter_side][2]
                 rotations == difference(other_side, enter_side).val
                 x == cell_pos[1]
                 y == cell_pos[2]
                 turned == CASE rotations = 0 -> <<x, y>>
                             [] rotations = 1 -> <<OneMinus(y), x>>
                             [] rotations = 2 -> <<OneMinus(x), OneMinus(y)>>
                             [] rotations = 3 -> <<y, OneMinus(x)>>
             IN  Teleported(<<other_location[1] * SquareSize + turned[1],
                              other_location[2] * SquareSize + turned[2]>>,
                            rotate_ip(rotate_ip(direction, 2), rotations))

\* variant: the direction gets the half turn only, not the turn between the
\* two sides
transform_from_halfturn(c, location, direction, enter_side) ==
    LET cell == split_position(location, SquareSize)[1]
        cell_pos == split_position(location, SquareSize)[2]
        start_cell == c[cell]
    IN  IF ~IsPortal(start_cell)
        THEN TeleportFails("AssertionError")
        ELSE IF start_cell.links[enter_side] = None
        THEN Teleported(location, direction)
        ELSE LET other_location == start_cell.links[enter_side][1]
                 other_side == start_cell.links[enter_side][2]
                 rotations == difference(other_side, enter_side).val
                 x == IF enter_side \in {UP, DOWN}
                      THEN OneMinus(cell_pos[1]) ELSE cell_pos[1]
                 y == IF enter_side \in {LEFT, RIGHT}
                      THEN OneMinus(cell_pos[2]) ELSE cell_pos[2]
                 turned == CASE rotations = 0 -> <<x, y>>
                             [] rotations = 1 -> <<OneMinus(y), x>>
                             [] rotations = 2 -> <<OneMinus(x), OneMinus(y)>>
                             [] rotations = 3 -> <<y, OneMinus(x)>>
             IN  Teleported(<<other_location[1] * SquareSize + turned[1],
                              other_location[2] * SquareSize + turned[2]>>,
                            rotate_ip(direction, 2))

\* variant: a cell that is not a portal lets the ray through
transform_from_lenient(c, location, direction, enter_side) ==
    LET cell == split_position(location, SquareSize)[1]
        cell_pos == split_position(location, SquareSize)[2]
        start_cell == c[cell]
    IN  IF ~IsPortal(start_cell) \/ start_cell.links[enter_side] = None
        THEN Teleported(location, direction)
        ELSE LET other_location == start_cell.links[enter_side][1]
                 other_side == start_cell.links[enter_side][2]
                 rotations == difference(other_side, enter_side).val
                 x == IF enter_side \in {UP, DOWN}
                      THEN OneMinus(cell_pos[1]) ELSE cell_pos[1]
                 y == IF enter_side \in {LEFT, RIGHT}
                      THEN OneMinus(cell_pos[2]) ELSE cell_pos[2]
                 turned == CASE rotations = 0 -> <<x, y>>
                             [] rotations = 1 -> <<OneMinus(y), x>>
                             [] rotations = 2 -> <<OneMinus(x), OneMinus(y)>>
                             [] rotations = 3 -> <<y, OneMinus(x)>>
             IN  Teleported(<<other_location[1] * SquareSize + turned[1],
                              other_location[2] * SquareSize + turned[2]>>,
                            rotate_ip(rotate_ip(direction, 2), rotations))

\* variant: the direction is turned back by a quarter turn, not a half turn
transform_from_quarterturn(c, location, direction, enter_side) ==
    LET cell == split_position(location, SquareSize)[1]
        cell_pos == split_position(location, SquareSize)[2]
        start_cell == c[cell]
    IN  IF ~IsPortal(start_cell)
        THEN TeleportFails("AssertionError")
        ELSE IF start_cell.links[enter_side] = None
        THEN Teleported(location, direction)
        ELSE LET other_location == start_cell.links[enter_side][1]
                 other_side == start_cell.links[enter_side][2]
                 rotations == difference(other_side, enter_side).val
                 x == IF enter_side \in {UP, DOWN}
                      THEN OneMinus(cell_pos[1]) ELSE cell_pos[1]
                 y == IF enter_side \in {LEFT, RIGHT}
                      THEN OneMinus(cell_pos[2]) ELSE cell_pos[2]
                 turned == CASE rotations = 0 -> <<x, y>>
                             [] rotations = 1 -> <<OneMinus(y), x>>
                             [] rotations = 2 -> <<OneMinus(x), OneMinus(y)>>
                             [] rotations = 3 -> <<y, OneMinus(x)>>
             IN  Teleported(<<other_location[1] * SquareSize + turned[1],
                              other_location[2] * SquareSize + turned[2]>>,
                            rotate_ip(rotate_ip(direction, 1), rotations))

\* portal_transform from the assert on, with enter_side already found
transform_from(c, location, direction, enter_side) ==
    LET cell == split_position(location, SquareSize)[1]
        cell_pos == split_position(location, SquareSize)[2]
        start_cell == c[cell]
    IN  IF ~IsPortal(start_cell)
        THEN TeleportFails("AssertionError")
        ELSE IF start_cell.links[enter_side] = None
        THEN Teleported(location, direction)
        ELSE LET other_location == start_cell.links[enter_side][1]
                 other_side == start_cell.links[enter_side][2]
                 rotations == difference(other_side, enter_side).val
                 x == IF enter_side \in {UP, DOWN}
                      THEN OneMinus(cell_pos[1]) ELSE cell_pos[1]
                 y == IF enter_side \in {LEFT, RIGHT}
                      THEN OneMinus(cell_pos[2]) ELSE cell_pos[2]
                 turned == CASE rotations = 0 -> <<x, y>>
                             [] rotations = 1 -> <<OneMinus(y), x>>
                             [] rotations = 2 -> <<OneMinus(x), OneMinus(y)>>
                             [] rotations = 3 -> <<y, OneMinus(x)>>
             IN  Teleported(<<other_location[1] * SquareSize + turned[1],
                              other_location[2] * SquareSize + turned[2]>>,
                            rotate_ip(rotate_ip(direction, 2), rotations))

\* portal_transform: the entry side is the closest side of the position
portal_transform(c, location, direction) ==
    transform_from(c, location, direction,
                   get_closest_side(split_position(location, SquareSize)[2]))

(* ---- the state machine ----------------------------------------------- *)
\* cells: the grid now; prev: the grid before the last call; last: the last
\* call with its arguments (undo: it is an unlink_sides call that names the
\* sides the link_sides call right before it linked); steps: calls made;
\* args, result: the arguments and the outcome of a call of a function that
\* leaves the grid alone; sandbox: the editing state of the Sandbox object
\* (first_portal, edited_cells, mouse_down)
Call(op, l1, s1, l2, s2, new, undo) ==
    [op |-> op, loc1 |-> l1, side1 |-> s1, loc2 |-> l2, side2 |-> s2,
     new |-> new, undo |-> undo]

\* Sandbox.__init__: no portal side pending, no cell edited, mouse up
SandboxInit ==
    [first_portal |-> None, edited_cells |-> {}, mouse_down |-> FALSE]

Init ==
    /\ cells = [l \in Locations |-> Empty]
    /\ prev = cells
    /\ last = Call("init", <<0, 0>>, NONE, <<0, 0>>, NONE, "", FALSE)
    /\ steps = 0
    /\ args = <<>>
    /\ result = <<>>
    /\ sandbox = SandboxInit

\* link_sides links "two unique cell sides": its caller, Sandbox.update_cell,
\* passes two (cell, side) pairs that differ in cell or in side
LinkSides ==
    /\ steps < MaxSteps
    /\ \E l1 \in Locations, l2 \in Locations, s1 \in InputSides, s2 \in InputSides :
          /\ <<l1, s1>> # <<l2, s2>>
          /\ cells' = link_sides(cells, l1, s1, l2, s2)
          /\ last' = Call("link_sides", l1, s1, l2, s2, "", FALSE)
    /\ prev' = cells
    /\ steps' = steps + 1
    /\ UNCHANGED <<args, result, sandbox>>

UnlinkSides ==
    /\ steps < MaxSteps
    /\ \E l1 \in Locations, l2 \in Locations, s1 \in InputSides, s2 \in InputSides :
          /\ cells' = unlink_sides(cells, l1, s1, l2, s2)
          /\ last' = Call("unlink_sides", l1, s1, l2, s2, "",
                           /\ last.op = "link_sides"
                           /\ last.loc1 = l1 /\ last.side1 = s1
                           /\ last.loc2 = l2 /\ last.side2 = s2)
    /\ prev' = cells
    /\ steps' = steps + 1
    /\ UNCHANGED <<args, result, sandbox>>

SetCellType ==
    /\ steps < MaxSteps
    /\ \E loc \in Locations, new \in NonPortalTypes :
          /\ cells' \in set_cell_type(cells, loc, new)
          /\ last' = Call("set_cell_type", loc, NONE, loc, NONE, new.kind, FALSE)
    /\ prev' = cells
    /\ steps' = steps + 1
    /\ UNCHANGED <<args, result, sandbox>>

Clear ==
    /\ steps < MaxSteps
    /\ cells' \in clear(cells)
    /\ last' = Call("clear", <<0, 0>>, NONE, <<0, 0>>, NONE, "", FALSE)
    /\ prev' = cells
    /\ steps' = steps + 1
    /\ UNCHANGED <<args, result, sandbox>>

Next == LinkSides \/ UnlinkSides \/ SetCellType \/ Clear

Spec == Init /\ [][Next]_vars

(* ---- the direction algebra on its own -------------------------------- *)
\* the grid stays as constructed
GridIdle ==
    /\ cells = [l \in Locations |-> Empty]
    /\ prev = cells
    /\ last = Call("init", <<0, 0>>, NONE, <<0, 0>>, NONE, "", FALSE)
    /\ steps = 0
    /\ sandbox = SandboxInit

InitDirection ==
    /\ GridIdle
    /\ args \in [self : Directions, other : Directions,
                 j : (-MaxTimes)..MaxTimes, k : (-MaxTimes)..MaxTimes]
    /\ result = [op |-> "none", ccw |-> FALSE, out |-> Returns(0)]

\* self.rotate(j, ccw)
Rotate ==
    /\ \E ccw \in BOOLEAN :
          result' = [op |-> "rotate", ccw |-> ccw,
                     out |-> rotate(args.self, args.j, ccw)]
    /\ UNCHANGED <<cells, prev, last, steps, args, sandbox>>

\* self.difference(other)
Difference ==
    /\ result' = [op |-> "difference", ccw |-> FALSE,
                  out |-> difference(args.self, args.other)]
    /\ UNCHANGED <<cells, prev, last, steps, args, sandbox>>

NextDirection == Rotate \/ Difference

SpecDirection == InitDirection /\ [][NextDirection]_vars

(* ---- a ray teleported from a cell of the grid ------------------------ *)
\* the directions a ray is given: the four axes and one direction strictly
\* inside each quadrant
RayDirections ==
    {<<1, 0>>, <<0, 1>>, <<-1, 0>>, <<0, -1>>,
     <<2, 1>>, <<-1, 2>>, <<-2, -1>>, <<1, -2>>}

\* the pixel positions inside the map
Positions == (0..(Columns * SquareSize - 1)) \X (0..(SquareSize - 1))

\* the cell and the fractional position of the ray
RayCell == split_position(args.location, SquareSize)[1]

RayCellPos == split_position(args.location, SquareSize)[2]

InitTeleport ==
    /\ GridIdle
    /\ args \in [location : Positions, direction : RayDirections]
    /\ result = [op |-> "none", out |-> Teleported(<<0, 0>>, <<0, 0>>)]

\* link_sides on a side of the cell the ray is in
LinkRayCell ==
    /\ result.op = "none"
    /\ steps < MaxEdits
    /\ \E s1 \in Sides, l2 \in Locations, s2 \in Sides :
          /\ <<RayCell, s1>> # <<l2, s2>>
          /\ cells' = link_sides(cells, RayCell, s1, l2, s2)
          /\ last' = Call("link_sides", RayCell, s1, l2, s2, "", FALSE)
    /\ prev' = cells
    /\ steps' = steps + 1
    /\ UNCHANGED <<args, result, sandbox>>

\* set_cell_type putting a wall or a mirror on the cell the ray is in
BlockRayCell ==
    /\ result.op = "none"
    /\ steps < MaxEdits
    /\ \E new \in {Wall, Mirror} :
          /\ cells' \in set_cell_type(cells, RayCell, new)
          /\ last' = Call("set_cell_type", RayCell, NONE, RayCell, NONE,
                           new.kind, FALSE)
    /\ prev' = cells
    /\ steps' = steps + 1
    /\ UNCHANGED <<args, result, sandbox>>

\* portal_transform(location, direction)
PortalTransform ==
    /\ result.op = "none"
    /\ result' = [op |-> "portal_transform",
                  out |-> portal_transform(cells, args.location, args.direction)]
    /\ prev' = cells
    /\ UNCHANGED <<cells, last, steps, args, sandbox>>

NextTeleport == LinkRayCell \/ BlockRayCell \/ PortalTransform

SpecTeleport == InitTeleport /\ [][NextTeleport]_vars

(* ---- a ray sent back through the portal it came out of --------------- *)
\* portal_transform on the ray that came out of the portal, turned around
TurnBack ==
    /\ result.op = "portal_transform"
    /\ result.out.err = ""
    /\ result.out.location \in Positions
    /\ result' = [op |-> "turn_back",
                  out |-> portal_transform(cells, result.out.location,
                                           rotate_ip(result.out.direction, 2)),
                  first |-> result.out]
    /\ prev' = cells
    /\ UNCHANGED <<cells, last, steps, args, sandbox>>

NextRoundTrip == LinkRayCell \/ PortalTransform \/ TurnBack

SpecRoundTrip == InitTeleport /\ [][NextRoundTrip]_vars

(* ---- the map editor (src/main.py) ------------------------------------ *)
\* the values handle_mouse passes as set_value: Wall.NORMAL, Mirror(ALL),
\* Portal() and False
SetValues == {Wall, Mirror, Portal(NoLinks), Empty}

\* cell added to self.edited_cells
Edited(sb, locs) == [sb EXCEPT !.edited_cells = @ \cup locs]

\* variant: the second portal click links also when it repeats the pending
\* (cell, side)
update_cell_relinks(c, sb, set_value, mouse_cell, closest_side) ==
    IF ~IsPortal(set_value)
    THEN {[cells |-> g, sandbox |-> Edited(sb, {mouse_cell})]
          : g \in set_cell_type(c, mouse_cell, set_value)}
    ELSE IF sb.first_portal = None
    THEN {[cells |-> c,
           sandbox |-> [Edited(sb, {mouse_cell})
                        EXCEPT !.first_portal = <<mouse_cell, closest_side>>]]}
    ELSE LET first_position == sb.first_portal[1]
             first_side == sb.first_portal[2]
         IN  {[cells |-> link_sides(c, first_position, first_side,
                                    mouse_cell, closest_side),
               sandbox |-> [Edited(sb, {first_position, mouse_cell})
                            EXCEPT !.first_portal = None]]}

\* Sandbox.update_cell: the grids and editing states it can leave.  A Mirror
\* is one kind of content; which of its sides reflect is not modelled.
update_cell(c, sb, set_value, mouse_cell, closest_side) ==
    IF ~IsPortal(set_value)
    THEN {[cells |-> g, sandbox |-> Edited(sb, {mouse_cell})]
          : g \in set_cell_type(c, mouse_cell, set_value)}
    ELSE IF sb.first_portal = None
    THEN {[cells |-> c,
           sandbox |-> [Edited(sb, {mouse_cell})
                        EXCEPT !.first_portal = <<mouse_cell, closest_side>>]]}
    ELSE LET first_position == sb.first_portal[1]
             first_side == sb.first_portal[2]
         IN  IF first_position # mouse_cell \/ first_side # closest_side
             THEN {[cells |-> link_sides(c, first_position, first_side,
                                         mouse_cell, closest_side),
                    sandbox |-> [Edited(sb, {first_position, mouse_cell})
                                 EXCEPT !.first_portal = None]]}
             ELSE {[cells |-> c,
                    sandbox |-> [sb EXCEPT !.first_portal = None]]}

\* handle_event, MOUSEBUTTONDOWN
MouseButtonDown ==
    /\ ~sandbox.mouse_down
    /\ sandbox' = [sandbox EXCEPT !.mouse_down = TRUE]
    /\ UNCHANGED <<cells, prev, last, steps, args, result>>

\* handle_event, MOUSEBUTTONUP
MouseButtonUp ==
    /\ sandbox.mouse_down
    /\ sandbox' = [sandbox EXCEPT !.mouse_down = FALSE, !.edited_cells = {}]
    /\ UNCHANGED <<cells, prev, last, steps, args, result>>

\* handle_mouse in map mode with a mouse button held over mouse_cell, nearest
\* to closest_side, the player standing in another cell: update_cell.  last
\* records the side pending before the click (NONE when there was none) and,
\* for a portal click, the side clicked; the other clicks do the same on
\* every side, so one side stands for all.
HandleMouse ==
    /\ steps < MaxClicks
    /\ sandbox.mouse_down
    /\ \E mouse_cell \in Locations, set_value \in SetValues :
        \E closest_side \in IF IsPortal(set_value) THEN InputSides ELSE {UP} :
          /\ \E player \in Locations : mouse_cell # player
          /\ mouse_cell \notin sandbox.edited_cells
          /\ \E o \in update_cell(cells, sandbox, set_value, mouse_cell,
                                   closest_side) :
                /\ cells' = o.cells
                /\ sandbox' = o.sandbox
          /\ last' = IF ~IsPortal(set_value)
                     THEN Call("update_cell", <<0, 0>>, NONE, mouse_cell,
                               NONE, set_value.kind, FALSE)
                     ELSE IF sandbox.first_portal = None
                     THEN Call("update_cell", <<0, 0>>, NONE, mouse_cell,
                               closest_side, set_value.kind, FALSE)
                     ELSE Call("update_cell", sandbox.first_portal[1],
                               sandbox.first_portal[2], mouse_cell,
                               closest_side, set_value.kind, FALSE)
    /\ prev' = cells
    /\ steps' = steps + 1
    /\ UNCHANGED <<args, result>>

\* handle_event, KEYDOWN K_c
KeyC ==
    /\ steps < MaxClicks
    /\ cells' \in clear(cells)
    /\ last' = Call("clear", <<0, 0>>, NONE, <<0, 0>>, NONE, "", FALSE)
    /\ prev' = cells
    /\ steps' = steps + 1
    /\ UNCHANGED <<args, result, sandbox>>

NextEditor == MouseButtonDown \/ MouseButtonUp \/ HandleMouse \/ KeyC

SpecEditor == Init /\ [][NextEditor]_vars

(* ---- the geometry helpers on their own ------------------------------- *)
\* the coordinates a position is given: from one cell before the origin to
\* the end of the third cell
Pixels == (-SquareSize)..(3 * SquareSize - 1)

\* the fractional position of args.position in its cell of side SquareSize
ArgCellPos == split_position(args.position, SquareSize)[2]

InitGeometry ==
    /\ GridIdle
    /\ args \in [position : Pixels \X Pixels, square_size : 1..SquareSize,
                 direction : RayDirections]
    /\ result = [op |-> "none", out |-> NONE]

\* split_position(position, square_size)
SplitPosition ==
    /\ result' = [op |-> "split_position",
                  out |-> split_position(args.position, args.square_size)]
    /\ UNCHANGED <<cells, prev, last, steps, args, sandbox>>

\* get_closest_side(cell_pos)
GetClosestSide ==
    /\ result' = [op |-> "get_closest_side",
                  out |-> get_closest_side(ArgCellPos)]
    /\ UNCHANGED <<cells, prev, last, steps, args, sandbox>>

\* get_enter_side(cell_pos, direction)
GetEnterSide ==
    /\ result' = [op |-> "get_enter_side",
                  out |-> get_enter_side(ArgCellPos, args.direction)]
    /\ UNCHANGED <<cells, prev, last, steps, args, sandbox>>

NextGeometry == SplitPosition \/ GetClosestSide \/ GetEnterSide

SpecGeometry == InitGeometry /\ [][NextGeometry]_vars

TypeOK ==
    /\ \A l \in Locations :
          /\ cells[l].kind \in {"Empty", "Wall", "Mirror", "Portal"}
          /\ \A d \in Sides : cells[l].links[d] = None
                              \/ cells[l].links[d] \in Locations \X Sides
    /\ steps \in Nat

(* ---- properties of the grid ------------------------------------------ *)
\* some link anywhere in grid c targets cell loc
LinkedTo(c, loc) ==
    \E l \in Locations, d \in Sides : c[l].links[d] # None /\ c[l].links[d][1] = loc

\* side d of cell l and side e of cell m hold each other's link in grid c
Paired(c, l, d, m, e) == c[l].links[d] = <<m, e>> /\ c[m].links[e] = <<l, d>>

\* side d of cell l holds a link whose target does not link back
Dangling(c, l, d) ==
    /\ c[l].links[d] # None
    /\ c[c[l].links[d][1]].links[c[l].links[d][2]] # <<l, d>>

\* C1: portal symmetry is an invariant of the grid: whenever side A of cell
\* C1 holds the link (C2, B), cell C2 is a Portal and its side B holds the
\* link (C1, A).
C1_PortalSymmetry ==
    \A l \in Locations, d \in Sides :
        cells[l].links[d] # None =>
            LET m == cells[l].links[d][1]
                e == cells[l].links[d][2]
            IN  IsPortal(cells[m]) /\ cells[m].links[e] = <<l, d>>

\* C2: after set_cell_type(x, y, c) with c not a Portal on a cell that held a
\* Portal with at least one link, no side of any cell holds a link whose
\* target cell is (x, y).
C2_NoDanglingAfterOverwrite ==
    (/\ last.op = "set_cell_type"
     /\ IsPortal(prev[last.loc1])
     /\ ~AllNone(prev[last.loc1].links))
        => ~LinkedTo(cells, last.loc1)

\* C3: no cell holds a Portal whose four links are all None, and an unlink,
\* called directly or from set_cell_type for a partner cell, that removes a
\* cell's last link leaves that cell Empty.
C3_EmptyPortalNormalized ==
    /\ \A l \in Locations : IsPortal(cells[l]) => ~AllNone(cells[l].links)
    /\ last.op \in {"unlink_sides", "set_cell_type"} =>
          \A l \in Locations :
             (/\ ~AllNone(prev[l].links)
              /\ AllNone(cells[l].links)
              /\ ~(last.op = "set_cell_type" /\ l = last.loc1))
                => cells[l] = Empty

\* C3 witness: an unlink_sides call took the last link of a portal, which is
\* Empty now, while the other portal of the pair keeps a link and stays.
C3_Witness ==
    /\ last.op = "unlink_sides"
    /\ \E l \in Locations :
          IsPortal(prev[l]) /\ ~AllNone(prev[l].links) /\ cells[l] = Empty
    /\ \E l \in Locations : IsPortal(cells[l])

\* the two cells of a call hold links on the named sides only
OnlyNamedLinks(c, call) ==
    \A l \in {call.loc1, call.loc2}, d \in Sides :
        c[l].links[d] # None =>
            <<l, d>> \in {<<call.loc1, call.side1>>, <<call.loc2, call.side2>>}

\* C4: link_sides(loc1, side1, loc2, side2) immediately followed by
\* unlink_sides(loc1, side1, loc2, side2), on cells that hold no other links,
\* leaves both cells Empty and every other cell as it was before the link.
C4_LinkUnlinkRoundTrip ==
    [][(/\ last.op = "link_sides"
        /\ last'.op = "unlink_sides"
        /\ last'.undo
        /\ OnlyNamedLinks(cells, last))
          => (/\ cells'[last.loc1] = Empty
              /\ cells'[last.loc2] = Empty
              /\ \A l \in Locations \ {last.loc1, last.loc2} : cells'[l] = prev[l])]_vars

\* C4 witness: unlink_sides has just undone the link_sides call before it,
\* both cells are Empty again and another cell of the grid is still a Portal.
C4_Witness ==
    /\ last.op = "unlink_sides"
    /\ last.undo
    /\ Paired(prev, last.loc1, last.side1, last.loc2, last.side2)
    /\ OnlyNamedLinks(prev, last)
    /\ cells[last.loc1] = Empty /\ cells[last.loc2] = Empty
    /\ \E l \in Locations \ {last.loc1, last.loc2} : IsPortal(cells[l])

\* C5: unlink_sides on two sides that do not hold each other's link is a
\* no-op: the content and every link of every cell are unchanged.
C5_UnlinkNotLinkedIsNoOp ==
    (/\ last.op = "unlink_sides"
     /\ prev[last.loc1].links[last.side1] # <<last.loc2, last.side2>>
     /\ prev[last.loc2].links[last.side2] # <<last.loc1, last.side1>>)
        => cells = prev

\* C6: unlink_sides is a no-op unless both locations hold a Portal: if either
\* cell is Empty, a Wall or a Mirror the whole grid is unchanged.
C6_UnlinkNeedsTwoPortals ==
    (/\ last.op = "unlink_sides"
     /\ (~IsPortal(prev[last.loc1]) \/ ~IsPortal(prev[last.loc2])))
        => cells = prev

\* C6 witness: unlink_sides named a linked side of a portal together with a
\* cell that is not a portal, and the portal still holds that link.
C6_Witness ==
    /\ last.op = "unlink_sides"
    /\ IsPortal(prev[last.loc1])
    /\ prev[last.loc1].links[last.side1] # None
    /\ prev[last.loc2].kind \in {"Empty", "Wall", "Mirror"}
    /\ cells = prev

\* C7: after link_sides(loc1, side1, loc2, side2) the cell at loc1 is a
\* Portal with links[side1] = (loc2, side2) and the cell at loc2 is a Portal
\* with links[side2] = (loc1, side1), whatever the two cells held before.
C7_LinkPostcondition ==
    last.op = "link_sides" =>
        /\ IsPortal(cells[last.loc1])
        /\ IsPortal(cells[last.loc2])
        /\ Paired(cells, last.loc1, last.side1, last.loc2, last.side2)

\* C7 witness: link_sides has linked a cell that held a Wall or a Mirror with
\* a cell that already was a Portal.
C7_Witness ==
    /\ last.op = "link_sides"
    /\ last.loc1 # last.loc2
    /\ \E l \in {last.loc1, last.loc2} : prev[l].kind \in {"Wall", "Mirror"}
    /\ \E l \in {last.loc1, last.loc2} : IsPortal(prev[l])
    /\ Paired(cells, last.loc1, last.side1, last.loc2, last.side2)

\* C8: link_sides changes nothing but links[side1] at loc1, links[side2] at
\* loc2 and the upgrade of the two cells to Portal: the links on their other
\* sides and every other cell are unchanged.
C8_LinkFrame ==
    last.op = "link_sides" =>
        /\ \A l \in {last.loc1, last.loc2}, d \in Sides :
              <<l, d>> \notin {<<last.loc1, last.side1>>, <<last.loc2, last.side2>>}
                 => cells[l].links[d] = prev[l].links[d]
        /\ \A l \in Locations \ {last.loc1, last.loc2} : cells[l] = prev[l]

\* C8 witness: link_sides acted on a portal that held a link on another
\* side, and that link is still there.
C8_Witness ==
    /\ last.op = "link_sides"
    /\ \E d \in Sides \ {last.side1, last.side2} :
          /\ prev[last.loc1].links[d] # None
          /\ cells[last.loc1].links[d] = prev[last.loc1].links[d]

\* C9: when side A of C1 and side B of C2 are linked and link_sides(C1, A,
\* C3, D) is called with (C3, D) # (C2, B), then C1.links[A] = (C3, D) and
\* C3.links[D] = (C1, A), while C2 is still a Portal and C2.links[B] is
\* still (C1, A).
C9_RelinkDoesNotCascade ==
    \A m \in Locations, e \in Sides :
        (/\ last.op = "link_sides"
         /\ Paired(prev, last.loc1, last.side1, m, e)
         /\ <<m, e>> # <<last.loc2, last.side2>>)
            => /\ Paired(cells, last.loc1, last.side1, last.loc2, last.side2)
               /\ IsPortal(cells[m])
               /\ cells[m].links[e] = <<last.loc1, last.side1>>

\* C9 witness: a linked side was linked again to another side and its old
\* partner is left with a one-sided link.
C9_Witness ==
    /\ last.op = "link_sides"
    /\ \E m \in Locations, e \in Sides :
          /\ Paired(prev, last.loc1, last.side1, m, e)
          /\ <<m, e>> # <<last.loc2, last.side2>>
          /\ Dangling(cells, m, e)

\* C10: clear() leaves every cell of the grid Empty, so no link remains.
C10_ClearEmptiesGrid ==
    last.op = "clear" => \A l \in Locations : cells[l] = Empty

\* C10 witness: clear() ran on a grid that held a one-sided link and a cell
\* with more than one link.
C10_Witness ==
    /\ last.op = "clear"
    /\ \E l \in Locations, d \in Sides : Dangling(prev, l, d)
    /\ \E l \in Locations :
          Cardinality({d \in Sides : prev[l].links[d] # None}) > 1
    /\ \A l \in Locations : cells[l] = Empty

(* ---- properties of the direction algebra (SpecDirection) ------------- *)
\* C17: quarter-turn rotation is a cyclic group of order 4 on the simple
\* directions: d.rotate(4) = d, d.rotate(1).rotate(-1) = d,
\* d.rotate(j).rotate(k) = d.rotate(j + k) for negative j, k too, and
\* d.rotate(j, ccw = True) = d.rotate(-j).
C17_RotateIsCyclicGroup ==
    (result.op = "rotate" /\ args.self \in Sides) =>
        /\ rotate(args.self, 4, FALSE) = Returns(args.self)
        /\ rotate(rotate(args.self, 1, FALSE).val, -1, FALSE) = Returns(args.self)
        /\ result.out.err = ""
        /\ ~result.ccw =>
              rotate(result.out.val, args.k, FALSE)
                 = rotate(args.self, args.j + args.k, FALSE)
        /\ result.ccw => result.out = rotate(args.self, -args.j, FALSE)

\* C17 witness: LEFT.rotate(-3, ccw = True) has wrapped round to DOWN, with a
\* negative second rotation at hand.
C17_Witness ==
    /\ result.op = "rotate"
    /\ result.ccw
    /\ args.self = LEFT /\ args.j = -3 /\ args.k = -2
    /\ result.out = Returns(DOWN)

\* C18: for two simple directions a and b, a.difference(b) is in 0..3 and
\* b.rotate(a.difference(b)) = a.
C18_DifferenceCountsClockwiseTurns ==
    (result.op = "difference" /\ args.self \in Sides /\ args.other \in Sides) =>
        /\ result.out.err = ""
        /\ result.out.val \in 0..3
        /\ rotate(args.other, result.out.val, FALSE) = Returns(args.self)

\* C18 witness: UP.difference(LEFT) is 1, one clockwise turn from LEFT round
\* to UP.
C18_Witness ==
    /\ result.op = "difference"
    /\ args.self = UP /\ args.other = LEFT
    /\ result.out = Returns(1)

\* C19: for two simple directions a and b,
\* (a.difference(b) + b.difference(a)) mod 4 = 0.
C19_DifferenceAntisymmetric ==
    (result.op = "difference" /\ args.self \in Sides /\ args.other \in Sides) =>
        (result.out.val + difference(args.other, args.self).val) % 4 = 0

\* C19 witness: UP.difference(RIGHT) is 3 and RIGHT.difference(UP) is 1.
C19_Witness ==
    /\ result.op = "difference"
    /\ args.self = UP /\ args.other = RIGHT
    /\ result.out = Returns(3)
    /\ difference(args.other, args.self) = Returns(1)

\* C20: self.difference(other) fails and returns no number whenever self or
\* other is a union of two or more simple directions.
C20_DifferenceRejectsCompound ==
    (/\ result.op = "difference"
     /\ (Len(components(args.self)) > 1 \/ Len(components(args.other)) > 1))
        => result.out.err # ""

\* C20 witness: difference was called on a simple self with a compound
\* other, and it raised.
C20_Witness ==
    /\ result.op = "difference"
    /\ args.self \in Sides
    /\ Len(components(args.other)) > 1
    /\ result.out.err = "AssertionError"

(* ---- properties of portal_transform (SpecTeleport) ------------------- *)
\* portal_transform has been called on the ray
Transformed == result.op = "portal_transform"

\* the side portal_transform takes as the entry side of the ray
ClosestSide == get_closest_side(RayCellPos)

\* the entry side of the ray refined by its direction
RefinedSide == get_enter_side(RayCellPos, args.direction)

\* the links of the cell the ray is in
RayLinks == cells[RayCell].links

\* the fractional position mirrored for entry side e
Mirrored(p, e) ==
    <<IF e \in {UP, DOWN} THEN OneMinus(p[1]) ELSE p[1],
      IF e \in {LEFT, RIGHT} THEN OneMinus(p[2]) ELSE p[2]>>

\* the remapping table T
Remapped(p, rotations) ==
    CASE rotations = 0 -> <<p[1], p[2]>>
      [] rotations = 1 -> <<OneMinus(p[2]), p[1]>>
      [] rotations = 2 -> <<OneMinus(p[1]), OneMinus(p[2])>>
      [] rotations = 3 -> <<p[2], OneMinus(p[1])>>

\* direction d turned by a multiple of 90 degrees
TurnedBy(d, degrees) == rotate_ip(d, (degrees \div 90) % 4)

\* fractional position p inside cell loc, as a pixel position
InCell(loc, p) == <<loc[1] * SquareSize + p[1], loc[2] * SquareSize + p[2]>>

Opposite(e) == CASE e = UP -> DOWN [] e = DOWN -> UP
                 [] e = LEFT -> RIGHT [] e = RIGHT -> LEFT

\* the normal of side e pointing into the cell (y grows downwards)
Inward(e) == CASE e = UP -> <<0, 1>> [] e = DOWN -> <<0, -1>>
               [] e = LEFT -> <<1, 0>> [] e = RIGHT -> <<-1, 0>>

Outward(e) == <<-Inward(e)[1], -Inward(e)[2]>>

\* the perpendicular distance of fractional position p from the edge of side e
Distance(e, p) == CASE e = UP -> p[2] [] e = DOWN -> OneMinus(p[2])
                    [] e = LEFT -> p[1] [] e = RIGHT -> OneMinus(p[1])

Dot(u, v) == u[1] * v[1] + u[2] * v[2]

Cross(u, v) == u[1] * v[2] - u[2] * v[1]

\* C11: for every fractional position in a portal cell and every direction,
\* the link portal_transform consults is the one of the side
\* get_enter_side(fractional, direction) gives: the outcome is the one that
\* follows from that side's link, also where it differs from the closest side.
C11_LinkChosenByEnterSide ==
    Transformed /\ IsPortal(cells[RayCell])
        => result.out = transform_from(cells, args.location, args.direction,
                                       RefinedSide)

\* C12: when the link of the portal cell on the entry side of the ray
\* (get_enter_side of its fractional position and direction) is empty,
\* portal_transform returns the position and the direction it was given,
\* whatever the other three sides hold, and the grid is unchanged.
C12_PassThrough ==
    Transformed /\ IsPortal(cells[RayCell]) /\ RayLinks[RefinedSide] = None
        => /\ result.out = Teleported(args.location, args.direction)
           /\ cells = prev

\* C13: when portal_transform goes through a linked side enter_side to the
\* target (cell, side), rotations = target_side.difference(enter_side), the
\* direction returned is the given one turned by 180 + 90 * rotations degrees
\* and the position returned is (target_cell + T[rotations](m)) * square_size
\* with m the fractional position mirrored for enter_side.
C13_TeleportFormula ==
    Transformed /\ IsPortal(cells[RayCell]) /\ RayLinks[ClosestSide] # None
        => LET enter_side == ClosestSide
               target_cell == RayLinks[enter_side][1]
               target_side == RayLinks[enter_side][2]
               rotations == difference(target_side, enter_side).val
               m == Mirrored(RayCellPos, enter_side)
           IN  /\ result.out.err = ""
               /\ result.out.direction
                    = TurnedBy(args.direction, 180 + 90 * rotations)
               /\ result.out.location
                    = InCell(target_cell, Remapped(m, rotations))

\* a ray off the centre line went from one cell through a side linked to a side
\* of another cell a quarter turn away
C13_Witness ==
    /\ Transformed
    /\ IsPortal(cells[RayCell])
    /\ RayLinks[ClosestSide] # None
    /\ RayLinks[ClosestSide][1] # RayCell
    /\ difference(RayLinks[ClosestSide][2], ClosestSide).val = 1
    /\ RayCellPos = <<1, 0>>
    /\ args.direction = <<2, 1>>

\* C14: when the entry side of the ray (get_enter_side of its fractional
\* position and direction) is linked to the opposite side of the same or of
\* another cell, portal_transform returns the heading unchanged and the
\* fractional position (x, 1-y) for UP/DOWN entry, (1-x, y) for LEFT/RIGHT
\* entry, inside the target cell.
C14_StraightWraparound ==
    Transformed /\ IsPortal(cells[RayCell])
    /\ RayLinks[RefinedSide] # None
    /\ RayLinks[RefinedSide][2] = Opposite(RefinedSide)
        => /\ result.out.err = ""
           /\ result.out.direction = args.direction
           /\ result.out.location
                = InCell(RayLinks[RefinedSide][1],
                         IF RefinedSide \in {UP, DOWN}
                         THEN <<RayCellPos[1], OneMinus(RayCellPos[2])>>
                         ELSE <<OneMinus(RayCellPos[1]), RayCellPos[2]>>)

\* C15: for every entry side and target side, a ray at perpendicular distance
\* d inside the edge of the side it enters by, heading into the cell through
\* that side, comes out at distance d from the edge of the target side, and
\* its heading stands to the outward normal of the target side as the given
\* heading stood to the inward normal of the entry side.
C15_RotatedPairsConsistent ==
    Transformed /\ IsPortal(cells[RayCell]) /\ RayLinks[ClosestSide] # None
    /\ Dot(args.direction, Inward(ClosestSide)) > 0
        => LET enter_side == ClosestSide
               target_cell == RayLinks[enter_side][1]
               target_side == RayLinks[enter_side][2]
               heading == result.out.direction
               emerged == <<result.out.location[1] - target_cell[1] * SquareSize,
                            result.out.location[2] - target_cell[2] * SquareSize>>
           IN  /\ result.out.err = ""
               /\ Distance(target_side, emerged)
                    = Distance(enter_side, RayCellPos)
               /\ Dot(heading, Outward(target_side))
                    = Dot(args.direction, Inward(enter_side))
               /\ Cross(heading, Outward(target_side))
                    = Cross(args.direction, Inward(enter_side))

\* a ray one pixel inside the LEFT edge, heading into the cell at a slant,
\* went through to the UP side of another cell
C15_Witness ==
    /\ Transformed
    /\ IsPortal(cells[RayCell])
    /\ ClosestSide = LEFT
    /\ RayLinks[LEFT] # None
    /\ RayLinks[LEFT][1] # RayCell
    /\ RayLinks[LEFT][2] = UP
    /\ RayCellPos = <<1, 2>>
    /\ args.direction = <<2, 1>>
    /\ result.out.err = ""

\* C16: portal_transform on a position whose cell is not a Portal (Empty,
\* Wall or Mirror) fails instead of returning a position and direction, and
\* leaves the grid unchanged.
C16_NonPortalFails ==
    Transformed /\ ~IsPortal(cells[RayCell])
        => /\ result.out.err = "AssertionError"
           /\ cells = prev

\* portal_transform was called on a ray standing in a Mirror cell
C16_Witness ==
    /\ Transformed
    /\ cells[RayCell] = Mirror
    /\ result.out.err # ""

(* ---- properties of the geometry helpers (SpecGeometry) --------------- *)
\* C21: split_position floors on both axes: for every position, negative
\* coordinates included, and every positive square_size the cell c and the
\* fractional position f satisfy c * square_size + f * square_size = position
\* with 0 <= f < 1; a coordinate of 2 * square_size gives cell 2 and
\* fractional 0; a negative coordinate gives a negative cell.
C21_SplitPositionFloors ==
    result.op = "split_position"
        => LET cell == result.out[1]
               remainder == result.out[2]
           IN  \A axis \in 1..2 :
                  /\ cell[axis] * args.square_size + remainder[axis]
                        = args.position[axis]
                  /\ 0 <= remainder[axis]
                  /\ remainder[axis] < args.square_size
                  /\ args.position[axis] = 2 * args.square_size
                        => cell[axis] = 2 /\ remainder[axis] = 0
                  /\ args.position[axis] < 0 => cell[axis] < 0

\* a position left of the origin and off the cell boundary was split, its y
\* exactly on the boundary of the third cell
C21_Witness ==
    /\ result.op = "split_position"
    /\ args.square_size = 3
    /\ args.position = <<-1, 2 * args.square_size>>
    /\ result.out = <<<<-1, 2>>, <<2, 0>>>>

\* the sides in the order get_closest_side lists them
SideOrder == <<UP, DOWN, LEFT, RIGHT>>

\* C22: get_closest_side returns a side whose edge distance (top y, bottom
\* 1-y, left x, right 1-x) is minimal and, among the sides tied for the
\* minimum, the first of UP, DOWN, LEFT, RIGHT: the centre and the top-left
\* corner give UP, a point equally near to bottom and right gives DOWN, a
\* point equally near to left and right only gives LEFT.
C22_ClosestSideFirstMinimum ==
    result.op = "get_closest_side"
        => LET p == ArgCellPos
               i == CHOOSE k \in 1..4 : SideOrder[k] = result.out
               minimal(e) == \A f \in Sides : Distance(e, p) <= Distance(f, p)
           IN  /\ result.out \in Sides
               /\ minimal(result.out)
               /\ \A k \in 1..(i - 1) : ~minimal(SideOrder[k])
               /\ (2 * p[1] = SquareSize /\ 2 * p[2] = SquareSize)
                     => result.out = UP
               /\ p = <<0, 0>> => result.out = UP
               /\ (minimal(DOWN) /\ minimal(RIGHT) /\ ~minimal(UP))
                     => result.out = DOWN
               /\ (minimal(LEFT) /\ minimal(RIGHT)
                   /\ ~minimal(UP) /\ ~minimal(DOWN))
                     => result.out = LEFT

\* the closest side of a point equally near to the bottom and the right edge
\* was taken
C22_Witness ==
    /\ result.op = "get_closest_side"
    /\ ArgCellPos = <<SquareSize - 1, SquareSize - 1>>
    /\ result.out = DOWN

\* C23: get_enter_side follows the candidate/angle table, the candidate being
\* the closest side and the angle the direction's angle from the positive x
\* axis in [0, 360): UP stays for angle <= 180, is RIGHT for
\* 180 < angle <= 270, else LEFT; RIGHT stays for 90 <= angle <= 270, is UP
\* below 90, else DOWN; DOWN stays for angle >= 180, is RIGHT for
\* 90 <= angle < 180, else LEFT; LEFT stays for angle <= 90 or >= 270, is UP
\* for 90 < angle <= 180, else DOWN.
C23_EnterSideTable ==
    result.op = "get_enter_side"
        => LET candidate == get_closest_side(ArgCellPos)
               a == angle(args.direction)
               keeps == \/ candidate = UP /\ a <= 180
                        \/ candidate = RIGHT /\ 90 <= a /\ a <= 270
                        \/ candidate = DOWN /\ a >= 180
                        \/ candidate = LEFT /\ (a <= 90 \/ a >= 270)
               second == \/ candidate = UP /\ 180 < a /\ a <= 270
                         \/ candidate = RIGHT /\ a < 90
                         \/ candidate = DOWN /\ 90 <= a /\ a < 180
                         \/ candidate = LEFT /\ 90 < a /\ a <= 180
               table == [c \in Sides |->
                           CASE c = UP -> <<RIGHT, LEFT>>
                             [] c = RIGHT -> <<UP, DOWN>>
                             [] c = DOWN -> <<RIGHT, LEFT>>
                             [] c = LEFT -> <<UP, DOWN>>]
           IN  /\ 0 <= a /\ a < 360
               /\ result.out = IF keeps THEN candidate
                               ELSE IF second THEN table[candidate][1]
                               ELSE table[candidate][2]

\* the entry side was taken for a ray nearest to the top edge heading exactly
\* along the negative x axis (angle 180)
C23_Witness ==
    /\ result.op = "get_enter_side"
    /\ ArgCellPos = <<1, 0>>
    /\ args.direction = <<-1, 0>>
    /\ result.out = UP

\* C25: get_enter_side returns exactly one side, never Direction.NONE, for
\* every fractional position of a cell and every direction other than zero,
\* and the ray does not leave through the side returned: UP implies dy >= 0,
\* DOWN dy <= 0, LEFT dx >= 0, RIGHT dx <= 0 (y grows downwards).
C25_EnterSideConsistent ==
    result.op = "get_enter_side"
        => /\ result.out \in Sides
           /\ result.out = UP => args.direction[2] >= 0
           /\ result.out = DOWN => args.direction[2] <= 0
           /\ result.out = LEFT => args.direction[1] >= 0
           /\ result.out = RIGHT => args.direction[1] <= 0

\* the entry side was taken for a ray nearest to the top edge heading up and
\* to the right, and is not the closest side
C25_Witness ==
    /\ result.op = "get_enter_side"
    /\ ArgCellPos = <<1, 0>>
    /\ args.direction = <<1, -2>>
    /\ get_closest_side(ArgCellPos) = UP
    /\ result.out = LEFT

(* ---- properties of a round trip through a portal (SpecRoundTrip) ----- *)
\* fractional position p is off every edge of its cell
StrictlyInside(p) ==
    /\ 0 < p[1] /\ p[1] < SquareSize
    /\ 0 < p[2] /\ p[2] < SquareSize

\* the ray went through a link held by both sides, from strictly inside its
\* cell to strictly inside the target cell, nearest there to the target side
WentThroughAndBack ==
    /\ result.op = "turn_back"
    /\ IsPortal(cells[RayCell])
    /\ StrictlyInside(RayCellPos)
    /\ RayLinks[ClosestSide] # None
    /\ Paired(cells, RayCell, ClosestSide,
              RayLinks[ClosestSide][1], RayLinks[ClosestSide][2])
    /\ split_position(result.first.location, SquareSize)[1]
          = RayLinks[ClosestSide][1]
    /\ StrictlyInside(split_position(result.first.location, SquareSize)[2])
    /\ get_closest_side(split_position(result.first.location, SquareSize)[2])
          = RayLinks[ClosestSide][2]

PortalClick == last.op = "update_cell" /\ last.new = "Portal"

\* the portal click found a side pending and it was not the clicked one
Linking ==
    /\ PortalClick
    /\ last.side1 # NONE
    /\ <<last.loc1, last.side1>> # <<last.loc2, last.side2>>

\* C24: in every grid the editor reaches from the empty map (wall, empty,
\* mirror and portal clicks on any cell and side, and clear) no side holds a
\* link that its target does not hold back, and a side that held a link when
\* a portal click linked it again is no longer named by its old partner.
C24_EditorKeepsLinksPaired ==
    /\ \A l \in Locations, d \in Sides : ~Dangling(cells, l, d)
    /\ Linking
          => \A end \in {<<last.loc1, last.side1>>, <<last.loc2, last.side2>>} :
                LET old == prev[end[1]].links[end[2]]
                IN  (old # None /\ old # cells[end[1]].links[end[2]])
                       => cells[old[1]].links[old[2]] # end

\* C27: a portal click with no side pending records the clicked (cell, side)
\* as pending and leaves the grid as it was; a portal click with a side
\* pending clears the pending side and the grid is the one link_sides leaves
\* for the pending and the clicked (cell, side) when they differ in cell or
\* side, and the grid as it was when they are the same.
C27_TwoClickProtocol ==
    PortalClick
        => IF last.side1 = NONE
           THEN /\ sandbox.first_portal = <<last.loc2, last.side2>>
                /\ cells = prev
           ELSE /\ sandbox.first_portal = None
                /\ cells = IF <<last.loc1, last.side1>> # <<last.loc2, last.side2>>
                           THEN link_sides(prev, last.loc1, last.side1,
                                           last.loc2, last.side2)
                           ELSE prev

\* the same side of the same cell was clicked twice: nothing is pending and
\* the grid is as it was, the clicked cell no portal
C27_Witness ==
    /\ PortalClick
    /\ last.side1 # NONE
    /\ <<last.loc1, last.side1>> = <<last.loc2, last.side2>>
    /\ sandbox.first_portal = None
    /\ cells = prev
    /\ ~IsPortal(cells[last.loc2])

====
